---- MODULE Spec2Model ----
(***************************************************************************)
(* The local documentation cache of bpy_mcp (src/src/cache.py,             *)
(* class DocumentationCache): two SQLite tables, search_cache and          *)
(* function_cache, with per-row created_at and hit_count, a TTL that is    *)
(* evaluated when a row is read, an explicit sweep, and a `disabled` flag  *)
(* set when the cache directory cannot be created.                         *)
(*                                                                         *)
(* Every method of the class is one action: the method opens its own       *)
(* connection, runs its statements and commits before it returns, and the  *)
(* callers run on one event loop, so a call is atomic here.                *)
(*                                                                         *)
(* Spec       the calls of the class, one after another, in any order.     *)
(* SpecServer the tool server of src/src/server.py: main() and the tool    *)
(*            handlers, whose steps are their cache and remote calls.      *)
(* SpecRace   two reads and one write of one key, from callers that share  *)
(*            the database file, interleaved statement by statement.       *)
(***************************************************************************)
EXTENDS Integers, Sequences, FiniteSets, TLC

\* ---------------------------------------------------------------- bounds

\* time.time() is read as an integer clock 0..MaxTime.
MaxTime == 2
\* hit_count is not incremented past MaxHits.
MaxHits == 2
\* The number of cache_* calls of one run.
MaxWrites == 2

\* ------------------------------------------------------- Optional values

\* Python's None / a returned value, as a sequence of length 0 or 1.
None == << >>

Some(v) == <<v>>

\* ---------------------------------------------------------- Python values
\* The payloads are JSON-representable Python values (str, int, list, dict
\* with str keys), all of one record shape so that any two can be compared.

PyStr(s) == [tag |-> "str", s |-> s, n |-> 0, items |-> << >>]

PyNum(n) == [tag |-> "num", s |-> "", n |-> n, items |-> << >>]

PyList(xs) == [tag |-> "list", s |-> "", n |-> 0, items |-> xs]

\* One key: value entry of a dict (a dict keeps its insertion order).
PyItem(k, v) == [tag |-> "item", s |-> k, n |-> 0, items |-> <<v>>]

PyDict(kvs) == [tag |-> "dict", s |-> "", n |-> 0, items |-> kvs]

\* ------------------------------------------------------------------ JSON
\* JSON text as its sequence of tokens: punctuation, string literals and
\* number literals.

TokP(c) == [t |-> "p", s |-> c, n |-> 0]

TokStr(s) == [t |-> "str", s |-> s, n |-> 0]

TokNum(n) == [t |-> "num", s |-> "", n |-> n]

RECURSIVE json_dumps(_)
RECURSIVE dumps_elements(_)
RECURSIVE dumps_members(_)

\* json.dumps(list): the elements separated by ",".
dumps_elements(xs) ==
    IF xs = << >> THEN << >>
    ELSE json_dumps(Head(xs))
         \o (IF Tail(xs) = << >> THEN << >>
             ELSE <<TokP(",")>> \o dumps_elements(Tail(xs)))

\* json.dumps(dict): "key": value members separated by ",".
dumps_members(kvs) ==
    IF kvs = << >> THEN << >>
    ELSE <<TokStr(Head(kvs).s), TokP(":")>> \o json_dumps(Head(kvs).items[1])
         \o (IF Tail(kvs) = << >> THEN << >>
             ELSE <<TokP(",")>> \o dumps_members(Tail(kvs)))

json_dumps(v) ==
    CASE v.tag = "str"  -> <<TokStr(v.s)>>
      [] v.tag = "num"  -> <<TokNum(v.n)>>
      [] v.tag = "list" -> <<TokP("[")>> \o dumps_elements(v.items) \o <<TokP("]")>>
      [] v.tag = "dict" -> <<TokP("{")>> \o dumps_members(v.items) \o <<TokP("}")>>

IsP(tok, c) == tok.t = "p" /\ tok.s = c

RECURSIVE parse_value(_)
RECURSIVE parse_elements(_, _)
RECURSIVE parse_members(_, _)

\* The elements of an array after "[" or ",": [v |-> the list, rest |-> the
\* tokens after "]"].
parse_elements(ts, acc) ==
    LET r == parse_value(ts)
        xs == Append(acc, r.v)
    IN  IF IsP(Head(r.rest), ",")
        THEN parse_elements(Tail(r.rest), xs)
        ELSE [v |-> PyList(xs), rest |-> Tail(r.rest)]

\* The members of an object after "{" or ",".
parse_members(ts, acc) ==
    LET k == Head(ts).s
        r == parse_value(Tail(Tail(ts)))
        kvs == Append(acc, PyItem(k, r.v))
    IN  IF IsP(Head(r.rest), ",")
        THEN parse_members(Tail(r.rest), kvs)
        ELSE [v |-> PyDict(kvs), rest |-> Tail(r.rest)]

parse_value(ts) ==
    LET h == Head(ts)
    IN  CASE h.t = "str" -> [v |-> PyStr(h.s), rest |-> Tail(ts)]
          [] h.t = "num" -> [v |-> PyNum(h.n), rest |-> Tail(ts)]
          [] IsP(h, "[") ->
                IF IsP(Head(Tail(ts)), "]")
                THEN [v |-> PyList(<< >>), rest |-> Tail(Tail(ts))]
                ELSE parse_elements(Tail(ts), << >>)
          [] IsP(h, "{") ->
                IF IsP(Head(Tail(ts)), "}")
                THEN [v |-> PyDict(<< >>), rest |-> Tail(Tail(ts))]
                ELSE parse_members(Tail(ts), << >>)

json_loads_skipped(text) == PyStr("results_json")

json_loads(text) == parse_value(text).v

\* ---------------------------------------------------------------- strings
\* A str is the sequence of its characters.

Whitespace == {" ", "\t", "\n"}

LowerChar(c) ==
    CASE c = "A" -> "a"
      [] c = "B" -> "b"
      [] OTHER   -> c

\* str.lower()
lower(s) == [i \in 1..Len(s) |-> LowerChar(s[i])]

RECURSIVE lstrip(_)
lstrip(s) ==
    IF s # << >> /\ Head(s) \in Whitespace THEN lstrip(Tail(s)) ELSE s

RECURSIVE rstrip(_)
rstrip(s) ==
    IF s # << >> /\ s[Len(s)] \in Whitespace
    THEN rstrip(SubSeq(s, 1, Len(s) - 1))
    ELSE s

\* str.strip()
strip(s) == rstrip(lstrip(s))

DigitChar(d) ==
    CASE d = 0 -> "0" [] d = 1 -> "1" [] d = 2 -> "2" [] d = 3 -> "3"
      [] d = 4 -> "4" [] d = 5 -> "5" [] d = 6 -> "6" [] d = 7 -> "7"
      [] d = 8 -> "8" [] d = 9 -> "9"

RECURSIVE NatToStr(_)
NatToStr(n) ==
    IF n < 10 THEN <<DigitChar(n)>>
    ELSE NatToStr(n \div 10) \o <<DigitChar(n % 10)>>

\* The f-string's {limit} for an int.
IntToStr(n) == IF n < 0 THEN <<"-">> \o NatToStr(0 - n) ELSE NatToStr(n)

\* hashlib.sha256(...).hexdigest(): collision-resistant, so one digest per
\* input string; the digest is named by the string it was computed from.
sha256_hexdigest(s) == [sha256 |-> s]

_hash_query_nostrip(query, limit) ==
    sha256_hexdigest(lower(query) \o <<":">> \o IntToStr(limit))

_hash_query(query, limit) ==
    sha256_hexdigest(strip(lower(query)) \o <<":">> \o IntToStr(limit))

\* ------------------------------------------------------------- the inputs

\* The (query, limit) pairs of the calls: "a" with 5, "A " (a case and
\* whitespace variant of "a") with 5, "a" with another limit, and "b" with 5.
SearchInputs ==
    { << <<"a">>, 5 >>, << <<"A", " ">>, 5 >>, << <<"a">>, 15 >>, << <<"b">>, 5 >> }

\* Function paths: "a" and "A " are different paths.
FunctionPaths == { <<"a">>, <<"A", " ">> }

\* One match as search_docs builds it (server.py): id, score, metadata.
Match(id, score) ==
    PyDict(<<PyItem("id", PyStr(id)),
             PyItem("score", PyNum(score)),
             PyItem("metadata", PyDict(<<PyItem("function_path", PyStr(id))>>))>>)

SearchPayloads ==
    { PyList(<< >>),
      PyList(<<Match("bpy.ops.mesh.subdivide", 1), Match("bmesh.ops", 0)>>) }

FunctionPayloads ==
    { PyDict(<< >>),
      PyDict(<<PyItem("function_path", PyStr("bpy.ops.mesh.subdivide")),
               PyItem("parameters", PyList(<<PyStr("number_cuts")>>))>>) }

\* The values of ttl_seconds: 0 (nothing is ever live), 1 (an entry is
\* live in the second it was written, and not after) and 2 (an entry is
\* live in the second it was written and in the next one).
TTLs == {0, 1, 2}

\* What Path.mkdir(exist_ok=True) does with the cache directory: it creates
\* it (or finds it), or raises; PermissionError, FileNotFoundError (a missing
\* parent: parents is not set) and FileExistsError (the path is a file) are
\* OSError subclasses, and a read-only file system raises OSError itself.
MkdirOutcomes ==
    {"ok", "PermissionError", "FileNotFoundError", "FileExistsError", "OSError"}

\* limit = max(1, min(20, limit))
clamp(limit) ==
    LET capped == IF limit < 20 THEN limit ELSE 20
    IN  IF capped > 1 THEN capped ELSE 1

\* The (query, limit) pairs of the search_docs requests: "a" with the
\* default limit, and "a" with a limit above the maximum.
ToolSearchInputs == { << <<"a">>, 5 >>, << <<"a">>, 25 >> }

\* The function paths of the get_function requests.
ToolFunctionPaths == { <<"a">> }

\* The parent_module arguments of the list_modules requests.
ToolParentModules == { None, Some("bpy.app") }

SearchKeys ==
    { _hash_query(i[1], i[2]) : i \in SearchInputs }
        \cup { _hash_query(i[1], clamp(i[2])) : i \in ToolSearchInputs }

\* The concurrent calls of the statement-level specification: two reads and
\* one write of one key.
Readers == {"r1", "r2"}

Writer == "w"

Procs == Readers \cup {Writer}

\* ---------------------------------------------------------------- state

VARIABLES
    fs,              \* the outcome of mkdir on the configured cache directory
    phase,           \* "new", "constructed", or "raised" (__init__ raised)
    attrs,           \* the attributes set on self
    disabled,        \* self.disabled
    ttl_seconds,     \* self.ttl_seconds
    search_cache,    \* the rows of table search_cache
    function_cache,  \* the rows of table function_cache
    now,             \* time.time()
    ret,             \* the last call: its name, arguments and outcome
    last_write,      \* history: per key, the payload of the latest cache_* call
    reads,           \* history: per key, the reads that returned a payload
                     \* since the latest cache_* call for it
    writes,          \* history: the number of cache_* calls
    main_pc,         \* server.py: where main() is
    handler,         \* server.py: the tool request in progress and its position
    resp,            \* server.py: what the last tool request returned, if no
                     \* request is in progress
    sweeps,          \* history: the number of clear_expired calls of main()
    proc,            \* statement level: per concurrent call, its position,
                     \* the row it fetched and its outcome
    commits          \* statement level: the committed writes, in commit order

vars == <<fs, phase, attrs, disabled, ttl_seconds, search_cache,
          function_cache, now, ret, last_write, reads, writes,
          main_pc, handler, resp, sweeps, proc, commits>>

\* The state of the tool server.
server == <<main_pc, handler, resp, sweeps>>

\* The state of the concurrent calls.
race == <<proc, commits>>

history == <<last_write, reads, writes>>

tables == <<search_cache, function_cache>>

config == <<fs, phase, attrs, disabled, ttl_seconds>>

\* A call that has returned normally has exc = ""; log holds the messages
\* the call gave to the logger.
NoCall ==
    [op |-> "", query |-> << >>, limit |-> 0, function_path |-> << >>,
     arg |-> None, value |-> None, count |-> 0, stats |-> None, exc |-> "",
     log |-> << >>]

Call(op) == [NoCall EXCEPT !.op = op]

\* No tool request is in progress. `remote` lists the remote calls the
\* request has made.
Idle ==
    [tool |-> "", pc |-> "", query |-> << >>, limit |-> 0,
     function_path |-> << >>, data |-> None, remote |-> << >>]

\* No tool request has returned yet.
NoResponse == [tool |-> "", kind |-> "", body |-> None, remote |-> << >>]

\* A concurrent call that has not started.
NotStarted ==
    [op |-> "", pc |-> "start", current_time |-> 0, row |-> None,
     arg |-> None, value |-> None, exc |-> ""]

\* ------------------------------------------------------- SQL statements

\* SELECT results, created_at FROM search_cache WHERE query_hash = ?
select_search(table, query_hash) == {r \in table : r.query_hash = query_hash}

\* SELECT details, created_at FROM function_cache WHERE function_path = ?
select_function(table, function_path) ==
    {r \in table : r.function_path = function_path}

\* cursor.fetchone(): None or a row of the result.
fetchone(rows) == IF rows = {} THEN None ELSE Some(CHOOSE r \in rows : TRUE)

is_valid_le(current_time, created_at, ttl) == current_time - created_at <= ttl

\* if current_time - created_at < self.ttl_seconds
is_valid(current_time, created_at, ttl) == current_time - created_at < ttl

hit_twice_search(table, query_hash) ==
    { IF r.query_hash = query_hash THEN [r EXCEPT !.hit_count = @ + 2] ELSE r
      : r \in table }

update_hit_search_sliding(table, query_hash) ==
    { IF r.query_hash = query_hash
      THEN [r EXCEPT !.hit_count = @ + 1, !.created_at = now]
      ELSE r
      : r \in table }

\* UPDATE search_cache SET hit_count = hit_count + 1 WHERE query_hash = ?
update_hit_search(table, query_hash) ==
    { IF r.query_hash = query_hash THEN [r EXCEPT !.hit_count = @ + 1] ELSE r
      : r \in table }

update_hit_function_normalized(table, function_path) ==
    { IF strip(lower(r.function_path)) = strip(lower(function_path))
      THEN [r EXCEPT !.hit_count = @ + 1]
      ELSE r
      : r \in table }

\* UPDATE function_cache SET hit_count = hit_count + 1 WHERE function_path = ?
update_hit_function(table, function_path) ==
    { IF r.function_path = function_path THEN [r EXCEPT !.hit_count = @ + 1] ELSE r
      : r \in table }

delete_search_skipped(table, query_hash) == table

\* DELETE FROM search_cache WHERE query_hash = ?
delete_search(table, query_hash) == {r \in table : r.query_hash # query_hash}

\* DELETE FROM function_cache WHERE function_path = ?
delete_function(table, function_path) ==
    {r \in table : r.function_path # function_path}

insert_search(table, query_hash, query, results, created_at) ==
    table \cup {[query_hash |-> query_hash, query |-> query, results |-> results,
                 created_at |-> created_at, hit_count |-> 0]}

\* INSERT OR REPLACE INTO search_cache (query_hash, query, results, created_at):
\* query_hash is the PRIMARY KEY, so the row that holds it is deleted first;
\* hit_count takes its DEFAULT 0.
insert_or_replace_search(table, query_hash, query, results, created_at) ==
    delete_search(table, query_hash)
        \cup {[query_hash |-> query_hash, query |-> query, results |-> results,
               created_at |-> created_at, hit_count |-> 0]}

\* INSERT OR REPLACE INTO function_cache (function_path, details, created_at)
insert_or_replace_function(table, function_path, details, created_at) ==
    delete_function(table, function_path)
        \cup {[function_path |-> function_path, details |-> details,
               created_at |-> created_at, hit_count |-> 0]}

delete_expired_older(table, expired_time) ==
    {r \in table : ~(r.created_at < expired_time + ttl_seconds)}

\* DELETE FROM <table> WHERE created_at < ?
delete_expired(table, expired_time) == {r \in table : ~(r.created_at < expired_time)}

sum_hit_count_rows(table) == Cardinality({r \in table : r.hit_count > 0})

RECURSIVE sum_hit_count(_)
\* SELECT SUM(hit_count) FROM <table>, with `or 0` for the NULL of no rows.
sum_hit_count(table) ==
    IF table = {} THEN 0
    ELSE LET r == CHOOSE x \in table : TRUE
         IN  r.hit_count + sum_hit_count(table \ {r})

\* ------------------------------------------------------------------ Init

Init ==
    /\ fs \in MkdirOutcomes
    /\ phase = "new"
    /\ attrs = {}
    /\ disabled = FALSE
    /\ ttl_seconds = 0
    /\ search_cache = {}
    /\ function_cache = {}
    /\ now = 0
    /\ ret = NoCall
    /\ last_write = [search |-> [k \in SearchKeys |-> None],
                     function |-> [k \in FunctionPaths |-> None]]
    /\ reads = [search |-> [k \in SearchKeys |-> 0],
                function |-> [k \in FunctionPaths |-> 0]]
    /\ writes = 0
    /\ main_pc = "cache only"
    /\ handler = Idle
    /\ resp = NoResponse
    /\ sweeps = 0
    /\ proc = [p \in Procs |-> NotStarted]
    /\ commits = << >>

\* --------------------------------------------------------------- actions

\* DocumentationCache.__init__ with ttl_seconds = ttl; _init_db creates the
\* two tables, empty.
__init__(ttl) ==
    /\ phase = "new"
    /\ UNCHANGED <<fs, now, history, tables>>
    /\ IF fs = "PermissionError"
       THEN /\ phase' = "constructed"
            /\ attrs' = {"cache_dir", "disabled"}
            /\ disabled' = TRUE
            /\ ttl_seconds' = ttl_seconds
            /\ ret' = [Call("__init__") EXCEPT
                          !.log = <<"Cannot create cache directory",
                                    "Cache will be disabled for this session">>]
       ELSE IF fs = "ok"
       THEN /\ phase' = "constructed"
            /\ attrs' = {"cache_dir", "disabled", "db_path", "ttl_seconds"}
            /\ disabled' = FALSE
            /\ ttl_seconds' = ttl
            /\ ret' = Call("__init__")
       ELSE /\ phase' = "raised"
            /\ attrs' = {"cache_dir"}
            /\ UNCHANGED <<disabled, ttl_seconds>>
            /\ ret' = [Call("__init__") EXCEPT !.exc = fs]

\* The clock advances between calls.
Tick ==
    /\ phase = "constructed"
    /\ now < MaxTime
    /\ now' = now + 1
    /\ ret' = Call("tick")
    /\ UNCHANGED <<config, tables, history>>

get_search_results(query, limit) ==
    /\ phase = "constructed"
    /\ UNCHANGED <<config, now, function_cache, last_write, writes>>
    /\ IF disabled
       THEN /\ ret' = [Call("get_search_results") EXCEPT !.query = query, !.limit = limit]
            /\ UNCHANGED <<search_cache, reads>>
       ELSE LET query_hash == _hash_query(query, limit)
                current_time == now
                row == fetchone(select_search(search_cache, query_hash))
                hit == row # None /\ is_valid(current_time, row[1].created_at, ttl_seconds)
                result == IF hit THEN Some(json_loads(row[1].results)) ELSE None
            IN  /\ hit => row[1].hit_count < MaxHits
                /\ search_cache' =
                      IF hit THEN update_hit_search(search_cache, query_hash)
                      ELSE IF row # None THEN delete_search(search_cache, query_hash)
                      ELSE search_cache
                /\ ret' = [Call("get_search_results") EXCEPT
                              !.query = query, !.limit = limit, !.value = result,
                              !.log = IF hit THEN <<"Cache hit for query">>
                                      ELSE IF row # None
                                      THEN <<"Cache expired for query">>
                                      ELSE << >>]
                /\ reads' = IF result # None
                            THEN [reads EXCEPT !.search[query_hash] = @ + 1]
                            ELSE reads

cache_search_results(query, limit, results) ==
    /\ phase = "constructed"
    /\ writes < MaxWrites
    /\ UNCHANGED <<config, now, function_cache>>
    /\ ret' = [Call("cache_search_results") EXCEPT
                  !.query = query, !.limit = limit, !.arg = Some(results),
                  !.log = IF disabled THEN << >>
                          ELSE <<"Cached results for query">>]
    /\ IF disabled
       THEN UNCHANGED <<search_cache, history>>
       ELSE LET query_hash == _hash_query(query, limit)
            IN  /\ search_cache' = insert_or_replace_search(search_cache, query_hash,
                                        query, json_dumps(results), now)
                /\ last_write' = [last_write EXCEPT !.search[query_hash] = Some(results)]
                /\ reads' = [reads EXCEPT !.search[query_hash] = 0]
                /\ writes' = writes + 1

get_function_details(function_path) ==
    /\ phase = "constructed"
    /\ UNCHANGED <<config, now, search_cache, last_write, writes>>
    /\ IF disabled
       THEN /\ ret' = [Call("get_function_details") EXCEPT !.function_path = function_path]
            /\ UNCHANGED <<function_cache, reads>>
       ELSE LET current_time == now
                row == fetchone(select_function(function_cache, function_path))
                hit == row # None /\ is_valid(current_time, row[1].created_at, ttl_seconds)
                result == IF hit THEN Some(json_loads(row[1].details)) ELSE None
            IN  /\ hit => row[1].hit_count < MaxHits
                /\ function_cache' =
                      IF hit THEN update_hit_function(function_cache, function_path)
                      ELSE IF row # None THEN delete_function(function_cache, function_path)
                      ELSE function_cache
                /\ ret' = [Call("get_function_details") EXCEPT
                              !.function_path = function_path, !.value = result,
                              !.log = IF hit THEN <<"Cache hit for function">>
                                      ELSE << >>]
                /\ reads' = IF result # None
                            THEN [reads EXCEPT !.function[function_path] = @ + 1]
                            ELSE reads

cache_function_details(function_path, details) ==
    /\ phase = "constructed"
    /\ writes < MaxWrites
    /\ UNCHANGED <<config, now, search_cache>>
    /\ ret' = [Call("cache_function_details") EXCEPT
                  !.function_path = function_path, !.arg = Some(details),
                  !.log = IF disabled THEN << >>
                          ELSE <<"Cached details for function">>]
    /\ IF disabled
       THEN UNCHANGED <<function_cache, history>>
       ELSE /\ function_cache' = insert_or_replace_function(function_cache,
                                     function_path, json_dumps(details), now)
            /\ last_write' = [last_write EXCEPT !.function[function_path] = Some(details)]
            /\ reads' = [reads EXCEPT !.function[function_path] = 0]
            /\ writes' = writes + 1

\* clear_expired past its `if self.disabled` check.
clear_expired_sweep ==
    LET current_time == now
        expired_time == current_time - ttl_seconds
        search_deleted ==
            Cardinality(search_cache \ delete_expired(search_cache, expired_time))
        function_deleted ==
            Cardinality(function_cache \ delete_expired(function_cache, expired_time))
    IN  /\ search_cache' = delete_expired(search_cache, expired_time)
        /\ function_cache' = delete_expired(function_cache, expired_time)
        /\ ret' = [Call("clear_expired") EXCEPT
                      !.count = search_deleted + function_deleted,
                      !.log = <<"Cleared expired search results and function details">>]

clear_expired_unguarded ==
    /\ phase = "constructed"
    /\ UNCHANGED <<config, now, history>>
    /\ IF "ttl_seconds" \in attrs
       THEN clear_expired_sweep
       ELSE /\ ret' = [Call("clear_expired") EXCEPT !.exc = "AttributeError"]
            /\ UNCHANGED tables

clear_expired ==
    /\ phase = "constructed"
    /\ UNCHANGED <<config, now, history>>
    /\ IF disabled
       THEN /\ ret' = Call("clear_expired")
            /\ UNCHANGED tables
       ELSE clear_expired_sweep

\* The dict get_stats returns; database_size_mb (the size of the file) is
\* left out, and ttl_hours is kept in seconds.
stats_dict(search_count, function_count, search_hits, function_hits, ttl, status) ==
    [search_entries |-> search_count,
     function_entries |-> function_count,
     total_entries |-> search_count + function_count,
     search_hits |-> search_hits,
     function_hits |-> function_hits,
     total_hits |-> search_hits + function_hits,
     ttl_hours |-> ttl,
     status |-> status]

get_stats ==
    /\ phase = "constructed"
    /\ UNCHANGED <<config, now, tables, history>>
    /\ IF disabled
       THEN \* the dict literal reads self.ttl_seconds
            IF "ttl_seconds" \in attrs
            THEN ret' = [Call("get_stats") EXCEPT
                            !.stats = Some(stats_dict(0, 0, 0, 0, ttl_seconds,
                                                      Some("disabled")))]
            ELSE ret' = [Call("get_stats") EXCEPT !.exc = "AttributeError"]
       ELSE ret' = [Call("get_stats") EXCEPT
                       !.stats = Some(stats_dict(Cardinality(search_cache),
                                                 Cardinality(function_cache),
                                                 sum_hit_count(search_cache),
                                                 sum_hit_count(function_cache),
                                                 ttl_seconds, None))]

clear_all_search_only ==
    /\ phase = "constructed"
    /\ UNCHANGED <<config, now, history, function_cache>>
    /\ ret' = [Call("clear_all") EXCEPT
                  !.log = IF disabled THEN << >> ELSE <<"Cleared all cache entries">>]
    /\ search_cache' = {}

clear_all ==
    /\ phase = "constructed"
    /\ UNCHANGED <<config, now, history>>
    /\ ret' = [Call("clear_all") EXCEPT
                  !.log = IF disabled THEN << >> ELSE <<"Cleared all cache entries">>]
    /\ IF disabled
       THEN UNCHANGED tables
       ELSE /\ search_cache' = {}
            /\ function_cache' = {}

\* The calls of a program that uses the cache directly, one after another.
Next ==
    \/ (\E ttl \in TTLs : __init__(ttl)) /\ UNCHANGED <<server, race>>
    \/ Tick /\ UNCHANGED <<server, race>>
    \/ (\E i \in SearchInputs : get_search_results(i[1], i[2]))
          /\ UNCHANGED <<server, race>>
    \/ (\E i \in SearchInputs, p \in SearchPayloads :
            cache_search_results(i[1], i[2], p))
          /\ UNCHANGED <<server, race>>
    \/ (\E f \in FunctionPaths : get_function_details(f))
          /\ UNCHANGED <<server, race>>
    \/ (\E f \in FunctionPaths, p \in FunctionPayloads :
            cache_function_details(f, p))
          /\ UNCHANGED <<server, race>>
    \/ clear_expired /\ UNCHANGED <<server, race>>
    \/ get_stats /\ UNCHANGED <<server, race>>
    \/ clear_all /\ UNCHANGED <<server, race>>

Spec == Init /\ [][Next]_vars

\* ------------------------------------------------------------ the server
\* server.py: main() builds the clients and the cache, sweeps the cache
\* once and runs the MCP server; a tool request runs one handler, whose
\* steps are its calls of the cache and of the remote services. One request
\* is in progress at a time.

\* ttl_seconds=86400 in main(): the clock of this specification counts days.
ServerTTL == 1

\* What a cache method raises when a statement or the commit fails (a
\* locked, unwritable or corrupt database file).
StorageFault == "sqlite3.OperationalError"

\* The exception classes raised under the handlers: all are subclasses of
\* Exception.
ExceptionClasses ==
    {StorageFault, "AttributeError", "openai.APIError", "pinecone.PineconeException"}

except_nothing(exc) == FALSE

\* except Exception as e:
except_Exception(exc) == exc \in ExceptionClasses

\* `if x:` for an Optional payload: None, an empty list, an empty dict, an
\* empty str and 0 are false.
truthy(x) ==
    /\ x # None
    /\ CASE x[1].tag = "str" -> x[1].s # ""
         [] x[1].tag = "num" -> x[1].n # 0
         [] OTHER -> x[1].items # << >>

\* dict.get(key, default) of a dict value.
dict_get(d, key, default) ==
    IF \E i \in 1..Len(d.items) : d.items[i].s = key
    THEN d.items[CHOOSE i \in 1..Len(d.items) : d.items[i].s = key].items[1]
    ELSE default

\* utils.format_search_result: "No results found" for no matches, else one
\* entry per match with the function_path of its metadata and its score.
format_search_result(matches, query) ==
    IF matches.items = << >>
    THEN [head |-> "No results found for", about |-> query, lines |-> << >>]
    ELSE [head |-> "Search results for", about |-> query,
          lines |-> [i \in 1..Len(matches.items) |->
                        LET metadata == dict_get(matches.items[i], "metadata", PyDict(<< >>))
                        IN  [func_path |-> dict_get(metadata, "function_path",
                                                    PyStr("Unknown")),
                             score |-> dict_get(matches.items[i], "score", PyNum(0))]]]

\* utils.format_function_details: the header with the function_path, and
\* the parameters section when the metadata has parameters.
format_function_details(metadata) ==
    [head |-> "#", about |-> dict_get(metadata, "function_path", PyStr("Unknown")),
     lines |-> dict_get(metadata, "parameters", PyList(<< >>)).items]

\* The report of cache_stats: the six counters and the TTL.
format_stats(stats) ==
    [head |-> "Cache Statistics", about |-> << >>,
     lines |-> <<stats.search_entries, stats.function_entries, stats.total_entries,
                 stats.search_hits, stats.function_hits, stats.total_hits,
                 stats.ttl_hours>>]

\* A statement or the commit of the cache method op raises: no method of
\* the class has a try block, so the caller gets the exception, and the
\* connection's with block rolls back.
storage_fault(op) ==
    /\ phase = "constructed"
    /\ ~disabled
    /\ ret' = [Call(op) EXCEPT !.exc = StorageFault]
    /\ UNCHANGED <<config, now, tables, history>>

\* The handler returns body.
handler_returns(tool, kind, body, remote) ==
    /\ resp' = [tool |-> tool, kind |-> kind, body |-> Some(body), remote |-> remote]
    /\ handler' = Idle
    /\ main_pc' = main_pc

\* A call in the handler's try block raises exc: the except clause returns
\* the error string, and what it does not catch leaves the handler.
handler_raises(tool, exc, remote) ==
    IF except_Exception(exc)
    THEN /\ resp' = [tool |-> tool, kind |-> "error", body |-> Some(exc),
                     remote |-> remote]
         /\ handler' = Idle
         /\ main_pc' = main_pc
    ELSE /\ resp' = resp
         /\ handler' = Idle
         /\ main_pc' = "crashed"

\* The handler goes on to its next call: its request has no response yet.
handler_continues(h) ==
    /\ handler' = h
    /\ resp' = NoResponse
    /\ main_pc' = main_pc

\* The state a remote call leaves alone.
cache_state == <<config, now, tables, history>>

\* main(): the environment check, and the clients.
main_check_env ==
    /\ main_pc = "start"
    /\ UNCHANGED <<cache_state, handler, resp, sweeps, race>>
    /\ ret' = Call("main")
    /\ \/ main_pc' = "clients ready"
       \/ main_pc' = "exited"

\* cache = DocumentationCache(cache_dir=".cache", ttl_seconds=86400)
main_construct ==
    /\ main_pc = "clients ready"
    /\ __init__(ServerTTL)
    /\ main_pc' = IF phase' = "constructed" THEN "constructed" ELSE "crashed"
    /\ UNCHANGED <<handler, resp, sweeps, race>>

main_sweep_skipped ==
    /\ main_pc = "constructed"
    /\ main_pc' = "serving"
    /\ ret' = Call("mcp.run")
    /\ UNCHANGED <<cache_state, handler, resp, sweeps, race>>

\* expired_count = cache.clear_expired(), and then mcp.run().
main_sweep ==
    /\ main_pc = "constructed"
    /\ sweeps' = sweeps + 1
    /\ UNCHANGED <<handler, resp, race>>
    /\ \/ clear_expired /\ main_pc' = "serving"
       \/ storage_fault("clear_expired") /\ main_pc' = "crashed"

\* search_docs up to its cache lookup.
search_docs_lookup(query, limit) ==
    /\ main_pc = "serving"
    /\ handler = Idle
    /\ writes < MaxWrites
    /\ UNCHANGED <<sweeps, race>>
    /\ \/ /\ get_search_results(query, clamp(limit))
          /\ IF truthy(ret'.value)
             THEN handler_returns("search_docs", "result",
                                  format_search_result(ret'.value[1], query), << >>)
             ELSE handler_continues([Idle EXCEPT !.tool = "search_docs",
                                                 !.pc = "embeddings",
                                                 !.query = query,
                                                 !.limit = clamp(limit)])
       \/ /\ storage_fault("get_search_results")
          /\ handler_raises("search_docs", StorageFault, << >>)

\* await openai_client.embeddings.create(...)
search_docs_embeddings ==
    /\ handler.tool = "search_docs"
    /\ handler.pc = "embeddings"
    /\ UNCHANGED <<cache_state, sweeps, race>>
    /\ ret' = Call("embeddings.create")
    /\ LET remote == Append(handler.remote, "embeddings.create")
       IN  \/ handler_continues([handler EXCEPT !.pc = "query", !.remote = remote])
           \/ handler_raises("search_docs", "openai.APIError", remote)

search_docs_query_caches_error(matches) ==
    /\ handler.tool = "search_docs"
    /\ handler.pc = "query"
    /\ UNCHANGED <<sweeps, race>>
    /\ LET remote == Append(handler.remote, "index.query")
       IN  \/ /\ ret' = Call("index.query")
              /\ UNCHANGED cache_state
              /\ handler_continues([handler EXCEPT !.pc = "cache", !.remote = remote,
                                                   !.data = Some(matches)])
           \/ /\ cache_search_results(handler.query, handler.limit, matches)
              /\ handler_raises("search_docs", "pinecone.PineconeException", remote)

\* pinecone_index.query(...), and cache_data built from results.matches.
search_docs_query(matches) ==
    /\ handler.tool = "search_docs"
    /\ handler.pc = "query"
    /\ UNCHANGED <<cache_state, sweeps, race>>
    /\ ret' = Call("index.query")
    /\ LET remote == Append(handler.remote, "index.query")
       IN  \/ handler_continues([handler EXCEPT !.pc = "cache", !.remote = remote,
                                                !.data = Some(matches)])
           \/ handler_raises("search_docs", "pinecone.PineconeException", remote)

\* cache.cache_search_results(query, limit, cache_data) and the return.
search_docs_fill ==
    /\ handler.tool = "search_docs"
    /\ handler.pc = "cache"
    /\ UNCHANGED <<sweeps, race>>
    /\ \/ /\ cache_search_results(handler.query, handler.limit, handler.data[1])
          /\ handler_returns("search_docs", "result",
                             format_search_result(handler.data[1], handler.query),
                             handler.remote)
       \/ /\ storage_fault("cache_search_results")
          /\ handler_raises("search_docs", StorageFault, handler.remote)

\* get_function up to its cache lookup.
get_function_lookup(function_path) ==
    /\ main_pc = "serving"
    /\ handler = Idle
    /\ writes < MaxWrites
    /\ UNCHANGED <<sweeps, race>>
    /\ \/ /\ get_function_details(function_path)
          /\ IF truthy(ret'.value)
             THEN handler_returns("get_function", "result",
                                  format_function_details(ret'.value[1]), << >>)
             ELSE handler_continues([Idle EXCEPT !.tool = "get_function",
                                                 !.pc = "fetch",
                                                 !.function_path = function_path])
       \/ /\ storage_fault("get_function_details")
          /\ handler_raises("get_function", StorageFault, << >>)

\* pinecone_index.fetch(ids=[function_path]): vectors is None when the
\* path is not among the fetched vectors, else the metadata of its vector.
get_function_fetch(vectors) ==
    /\ handler.tool = "get_function"
    /\ handler.pc = "fetch"
    /\ UNCHANGED <<cache_state, sweeps, race>>
    /\ ret' = Call("index.fetch")
    /\ LET remote == Append(handler.remote, "index.fetch")
       IN  \/ handler_continues(
                 IF vectors = None
                 THEN [handler EXCEPT !.pc = "embeddings", !.remote = remote]
                 ELSE [handler EXCEPT !.pc = "cache", !.remote = remote,
                                      !.data = vectors])
           \/ handler_raises("get_function", "pinecone.PineconeException", remote)

get_function_embeddings ==
    /\ handler.tool = "get_function"
    /\ handler.pc = "embeddings"
    /\ UNCHANGED <<cache_state, sweeps, race>>
    /\ ret' = Call("embeddings.create")
    /\ LET remote == Append(handler.remote, "embeddings.create")
       IN  \/ handler_continues([handler EXCEPT !.pc = "query", !.remote = remote])
           \/ handler_raises("get_function", "openai.APIError", remote)

\* pinecone_index.query(top_k=1, filter=...): matches is None for no match,
\* else the metadata of the first match.
get_function_query(matches) ==
    /\ handler.tool = "get_function"
    /\ handler.pc = "query"
    /\ UNCHANGED <<cache_state, sweeps, race>>
    /\ ret' = Call("index.query")
    /\ LET remote == Append(handler.remote, "index.query")
       IN  \/ IF matches = None
              THEN handler_returns("get_function", "not found",
                                   handler.function_path, remote)
              ELSE handler_continues([handler EXCEPT !.pc = "cache",
                                                     !.remote = remote,
                                                     !.data = matches])
           \/ handler_raises("get_function", "pinecone.PineconeException", remote)

\* cache.cache_function_details(function_path, metadata) and the return.
get_function_fill ==
    /\ handler.tool = "get_function"
    /\ handler.pc = "cache"
    /\ UNCHANGED <<sweeps, race>>
    /\ \/ /\ cache_function_details(handler.function_path, handler.data[1])
          /\ handler_returns("get_function", "result",
                             format_function_details(handler.data[1]),
                             handler.remote)
       \/ /\ storage_fault("cache_function_details")
          /\ handler_raises("get_function", StorageFault, handler.remote)

\* The predefined modules of list_modules.
modules(parent_module) ==
    IF parent_module = None THEN <<"bpy.ops", "bpy.types">>
    ELSE IF parent_module = Some("bpy.ops") THEN <<"mesh", "object">>
    ELSE << >>

list_modules(parent_module) ==
    /\ main_pc = "serving"
    /\ handler = Idle
    /\ UNCHANGED <<cache_state, sweeps, race>>
    /\ ret' = Call("list_modules")
    /\ LET available == modules(parent_module)
       IN  IF available = << >>
           THEN handler_returns("list_modules", "not found", parent_module, << >>)
           ELSE handler_returns("list_modules", "result", available, << >>)

cache_stats ==
    /\ main_pc = "serving"
    /\ handler = Idle
    /\ UNCHANGED <<sweeps, race>>
    /\ \/ /\ get_stats
          /\ IF ret'.exc # ""
             THEN handler_raises("cache_stats", ret'.exc, << >>)
             ELSE handler_returns("cache_stats", "stats",
                                  format_stats(ret'.stats[1]), << >>)
       \/ /\ storage_fault("get_stats")
          /\ handler_raises("cache_stats", StorageFault, << >>)

\* The rows .cache/docs_cache.db holds when main() starts: none, or the
\* entries a former run left, written at time 0.
FormerSearchRows ==
    { {},
      { [query_hash |-> _hash_query(<<"a">>, 5), query |-> <<"a">>,
         results |-> json_dumps(PyList(<<Match("bmesh.ops", 1)>>)),
         created_at |-> 0, hit_count |-> 0] } }

FormerFunctionRows ==
    { {},
      { [function_path |-> <<"a">>,
         details |-> json_dumps(PyDict(<<PyItem("function_path", PyStr("a"))>>)),
         created_at |-> 0, hit_count |-> 0] } }

InitServer ==
    /\ fs \in MkdirOutcomes
    /\ phase = "new"
    /\ attrs = {}
    /\ disabled = FALSE
    /\ ttl_seconds = 0
    /\ search_cache \in FormerSearchRows
    /\ function_cache \in FormerFunctionRows
    /\ fs # "ok" => search_cache = {} /\ function_cache = {}
    /\ now \in 0..MaxTime
    /\ ret = NoCall
    /\ last_write =
          [search |-> [k \in SearchKeys |->
                          IF \E r \in search_cache : r.query_hash = k
                          THEN Some(PyList(<<Match("bmesh.ops", 1)>>)) ELSE None],
           function |-> [k \in FunctionPaths |->
                          IF \E r \in function_cache : r.function_path = k
                          THEN Some(PyDict(<<PyItem("function_path", PyStr("a"))>>))
                          ELSE None]]
    /\ reads = [search |-> [k \in SearchKeys |-> 0],
                function |-> [k \in FunctionPaths |-> 0]]
    /\ writes = 0
    /\ main_pc = "start"
    /\ handler = Idle
    /\ resp = NoResponse
    /\ sweeps = 0
    /\ proc = [p \in Procs |-> NotStarted]
    /\ commits = << >>

NextServer ==
    \/ main_check_env
    \/ main_construct
    \/ main_sweep
    \/ Tick /\ UNCHANGED <<server, race>>
    \/ \E i \in ToolSearchInputs : search_docs_lookup(i[1], i[2])
    \/ search_docs_embeddings
    \/ \E matches \in SearchPayloads : search_docs_query(matches)
    \/ search_docs_fill
    \/ \E f \in ToolFunctionPaths : get_function_lookup(f)
    \/ \E vectors \in {None} \cup {Some(p) : p \in FunctionPayloads} :
          get_function_fetch(vectors)
    \/ get_function_embeddings
    \/ \E matches \in {None} \cup {Some(p) : p \in FunctionPayloads} :
          get_function_query(matches)
    \/ get_function_fill
    \/ \E parent_module \in ToolParentModules : list_modules(parent_module)
    \/ cache_stats

SpecServer == InitServer /\ [][NextServer]_vars

\* ------------------------------------------------------ statement level
\* Two get calls and one cache call of one key, from callers that share the
\* database file, run statement by statement: a get is its SELECT and then
\* its UPDATE or its DELETE, a cache call is its INSERT OR REPLACE. A written
\* statement and the commit after it are one step: SQLite gives the
\* database to one writing connection at a time, and the other connections
\* read the committed rows.

\* The key the concurrent calls use in search_cache, and in function_cache.
RaceKey == _hash_query(<<"a">>, 5)

RacePath == <<"a">>

\* The rows at the start: one row of the key, written at time 0 and read
\* once, and one row of another key in each table.
RaceSearchRows ==
    { [query_hash |-> RaceKey, query |-> <<"a">>,
       results |-> json_dumps(PyList(<<Match("bmesh.ops", 1)>>)),
       created_at |-> 0, hit_count |-> 1],
      [query_hash |-> _hash_query(<<"b">>, 5), query |-> <<"b">>,
       results |-> json_dumps(PyList(<< >>)),
       created_at |-> 0, hit_count |-> 0] }

RaceFunctionRows ==
    { [function_path |-> RacePath,
       details |-> json_dumps(PyDict(<<PyItem("function_path", PyStr("a"))>>)),
       created_at |-> 0, hit_count |-> 1],
      [function_path |-> <<"A", " ">>,
       details |-> json_dumps(PyDict(<< >>)),
       created_at |-> 0, hit_count |-> 0] }

\* The first statements of a get: current_time = time.time(), the SELECT
\* and fetchone(); a get that fetches no row returns None.
race_select(p) ==
    /\ proc[p].pc = "start"
    /\ LET row == IF proc[p].op = "get_search_results"
                  THEN fetchone(select_search(search_cache, RaceKey))
                  ELSE fetchone(select_function(function_cache, RacePath))
       IN  proc' = [proc EXCEPT ![p] =
                       [@ EXCEPT !.pc = IF row = None THEN "done" ELSE "selected",
                                 !.current_time = now,
                                 !.row = row]]
    /\ UNCHANGED <<config, now, tables, history, ret, server, commits>>

\* The hit branch of a get: the UPDATE of hit_count, the commit, and the
\* return of json.loads of the fetched payload.
race_update(p) ==
    /\ proc[p].pc = "selected"
    /\ is_valid(proc[p].current_time, proc[p].row[1].created_at, ttl_seconds)
    /\ IF proc[p].op = "get_search_results"
       THEN /\ search_cache' = update_hit_search(search_cache, RaceKey)
            /\ function_cache' = function_cache
            /\ proc' = [proc EXCEPT ![p] =
                           [@ EXCEPT !.pc = "done",
                                     !.value = Some(json_loads(proc[p].row[1].results))]]
       ELSE /\ function_cache' = update_hit_function(function_cache, RacePath)
            /\ search_cache' = search_cache
            /\ proc' = [proc EXCEPT ![p] =
                           [@ EXCEPT !.pc = "done",
                                     !.value = Some(json_loads(proc[p].row[1].details))]]
    /\ commits' = Append(commits, <<p, "UPDATE">>)
    /\ UNCHANGED <<config, now, history, ret, server>>

race_delete_strict(p) ==
    /\ proc[p].pc = "selected"
    /\ ~is_valid(proc[p].current_time, proc[p].row[1].created_at, ttl_seconds)
    /\ LET found == IF proc[p].op = "get_search_results"
                    THEN select_search(search_cache, RaceKey) # {}
                    ELSE select_function(function_cache, RacePath) # {}
       IN  proc' = [proc EXCEPT ![p] =
                       [@ EXCEPT !.pc = "done",
                                 !.exc = IF found THEN "" ELSE "sqlite3.OperationalError"]]
    /\ IF proc[p].op = "get_search_results"
       THEN /\ search_cache' = delete_search(search_cache, RaceKey)
            /\ function_cache' = function_cache
       ELSE /\ function_cache' = delete_function(function_cache, RacePath)
            /\ search_cache' = search_cache
    /\ commits' = Append(commits, <<p, "DELETE">>)
    /\ UNCHANGED <<config, now, history, ret, server>>

race_delete_if_unchanged(p) ==
    /\ proc[p].pc = "selected"
    /\ ~is_valid(proc[p].current_time, proc[p].row[1].created_at, ttl_seconds)
    /\ proc' = [proc EXCEPT ![p] = [@ EXCEPT !.pc = "done"]]
    /\ search_cache' = search_cache \ {proc[p].row[1]}
    /\ function_cache' = function_cache \ {proc[p].row[1]}
    /\ commits' = Append(commits, <<p, "DELETE">>)
    /\ UNCHANGED <<config, now, history, ret, server>>

\* The else branch of a get: the DELETE by key, the commit, and the return
\* of None.
race_delete(p) ==
    /\ proc[p].pc = "selected"
    /\ ~is_valid(proc[p].current_time, proc[p].row[1].created_at, ttl_seconds)
    /\ proc' = [proc EXCEPT ![p] = [@ EXCEPT !.pc = "done"]]
    /\ IF proc[p].op = "get_search_results"
       THEN /\ search_cache' = delete_search(search_cache, RaceKey)
            /\ function_cache' = function_cache
       ELSE /\ function_cache' = delete_function(function_cache, RacePath)
            /\ search_cache' = search_cache
    /\ commits' = Append(commits, <<p, "DELETE">>)
    /\ UNCHANGED <<config, now, history, ret, server>>

\* A cache call: its INSERT OR REPLACE with created_at = time.time(), and
\* the commit.
race_insert(payload) ==
    /\ proc[Writer].pc = "start"
    /\ IF proc[Writer].op = "cache_search_results"
       THEN /\ payload \in SearchPayloads
            /\ search_cache' = insert_or_replace_search(search_cache, RaceKey,
                                    <<"a">>, json_dumps(payload), now)
            /\ function_cache' = function_cache
       ELSE /\ payload \in FunctionPayloads
            /\ function_cache' = insert_or_replace_function(function_cache,
                                      RacePath, json_dumps(payload), now)
            /\ search_cache' = search_cache
    /\ proc' = [proc EXCEPT ![Writer] =
                   [@ EXCEPT !.pc = "done", !.current_time = now,
                             !.arg = Some(payload)]]
    /\ commits' = Append(commits, <<Writer, "INSERT">>)
    /\ UNCHANGED <<config, now, history, ret, server>>

InitRace ==
    /\ fs = "ok"
    /\ phase = "constructed"
    /\ attrs = {"cache_dir", "disabled", "db_path", "ttl_seconds"}
    /\ disabled = FALSE
    /\ ttl_seconds \in TTLs
    /\ search_cache = RaceSearchRows
    /\ function_cache = RaceFunctionRows
    /\ now \in 0..MaxTime
    /\ ret = NoCall
    /\ last_write = [search |-> [k \in SearchKeys |-> None],
                     function |-> [k \in FunctionPaths |-> None]]
    /\ reads = [search |-> [k \in SearchKeys |-> 0],
                function |-> [k \in FunctionPaths |-> 0]]
    /\ writes = 0
    /\ main_pc = "cache only"
    /\ handler = Idle
    /\ resp = NoResponse
    /\ sweeps = 0
    /\ \E ns \in {"search", "function"} :
          proc = [p \in Procs |->
                     [NotStarted EXCEPT !.op =
                         IF p \in Readers
                         THEN (IF ns = "search" THEN "get_search_results"
                               ELSE "get_function_details")
                         ELSE (IF ns = "search" THEN "cache_search_results"
                               ELSE "cache_function_details")]]
    /\ commits = << >>

NextRace ==
    \/ \E p \in Readers : race_select(p)
    \/ \E p \in Readers : race_update(p)
    \/ \E p \in Readers : race_delete(p)
    \/ \E payload \in SearchPayloads \cup FunctionPayloads : race_insert(payload)
    \/ Tick /\ UNCHANGED <<server, race>>

SpecRace == InitRace /\ [][NextRace]_vars

\* ---------------------------------------------------------------- claims

\* The store is constructed and not disabled.
Enabled == phase = "constructed" /\ ~disabled

\* An entry is live iff now - created_at < ttl_seconds.
Live(r) == now - r.created_at < ttl_seconds

SearchRows(k) == {r \in search_cache : r.query_hash = k}

FunctionRows(k) == {r \in function_cache : r.function_path = k}

\* The key of the get_search_results / cache_search_results call c.
KeyOf(c) == _hash_query(c.query, c.limit)

\* C1. A get returns a payload only when a row for its key exists with
\* now - created_at < ttl_seconds (an age equal to the TTL is a miss), the
\* payload is the one of the latest write to that key, and in every other
\* case the get returns None.
C1_Step ==
    /\ (Enabled /\ ret'.op = "get_search_results") =>
          ret'.value = IF \E r \in SearchRows(KeyOf(ret')) : Live(r)
                       THEN last_write.search[KeyOf(ret')]
                       ELSE None
    /\ (Enabled /\ ret'.op = "get_function_details") =>
          ret'.value = IF \E r \in FunctionRows(ret'.function_path) : Live(r)
                       THEN last_write.function[ret'.function_path]
                       ELSE None

C1_GetReturnsLiveLatestWrite == [][C1_Step]_vars

\* A get has returned a non-empty list, after two writes.
C1_Witness ==
    /\ Enabled
    /\ ret.op = "get_search_results"
    /\ ret.value # None
    /\ ret.value # Some(PyList(<< >>))
    /\ writes = 2

\* C2. A get that finds an expired row for its key deletes that row and
\* returns None: afterwards no row holds the key, every other row is as it
\* was, and a get of a key that has no row returns None and changes no row.
C2_Step ==
    /\ (Enabled /\ ret'.op = "get_search_results") =>
          LET rows == SearchRows(KeyOf(ret'))
          IN  /\ (rows # {} /\ \A r \in rows : ~Live(r)) =>
                    /\ ret'.value = None
                    /\ search_cache' = search_cache \ rows
                    /\ function_cache' = function_cache
              /\ rows = {} =>
                    /\ ret'.value = None
                    /\ UNCHANGED tables
    /\ (Enabled /\ ret'.op = "get_function_details") =>
          LET rows == FunctionRows(ret'.function_path)
          IN  /\ (rows # {} /\ \A r \in rows : ~Live(r)) =>
                    /\ ret'.value = None
                    /\ function_cache' = function_cache \ rows
                    /\ search_cache' = search_cache
              /\ rows = {} =>
                    /\ ret'.value = None
                    /\ UNCHANGED tables

C2_ExpiredReadDeletes == [][C2_Step]_vars

\* A get has found its row expired, with a row in the other table.
C2_Witness ==
    /\ ret.op = "get_search_results"
    /\ ret.log = <<"Cache expired for query">>
    /\ SearchRows(KeyOf(ret)) = {}
    /\ function_cache # {}

\* C3. With ttl_seconds > 0, a cache_search_results followed at once (no
\* clock advance) by get_search_results of the same query and limit returns
\* a list equal to the one written; likewise for the function details.
C3_Step ==
    (Enabled /\ ttl_seconds > 0) =>
        /\ ( /\ ret.op = "cache_search_results"
             /\ ret'.op = "get_search_results"
             /\ ret'.query = ret.query
             /\ ret'.limit = ret.limit ) => ret'.value = ret.arg
        /\ ( /\ ret.op = "cache_function_details"
             /\ ret'.op = "get_function_details"
             /\ ret'.function_path = ret.function_path ) => ret'.value = ret.arg

C3_RoundTrip == [][C3_Step]_vars

\* A get has returned the two-match list from a row written in this second
\* and read once.
C3_Witness ==
    /\ Enabled
    /\ ret.op = "get_search_results"
    /\ ret.value # None
    /\ Len(ret.value[1].items) = 2
    /\ \E r \in SearchRows(KeyOf(ret)) : r.created_at = now /\ r.hit_count = 1

\* C4. Every entry's hit_count is the number of reads that returned its
\* payload since the latest write to its key: 0 after the write, one more
\* with each such read, and changed by nothing else.
C4_HitAccounting ==
    /\ \A r \in search_cache : r.hit_count = reads.search[r.query_hash]
    /\ \A r \in function_cache : r.hit_count = reads.function[r.function_path]

\* An entry has been read twice.
C4_Witness ==
    /\ ret.op = "get_search_results"
    /\ \E r \in SearchRows(KeyOf(ret)) : r.hit_count = 2

UniqueKeys ==
    /\ \A r1, r2 \in search_cache : r1.query_hash = r2.query_hash => r1 = r2
    /\ \A r1, r2 \in function_cache : r1.function_path = r2.function_path => r1 = r2

\* C5. Each table holds at most one row per key, and when a write returns
\* the one row of the written key holds the written payload, created_at =
\* the time of the write and hit_count = 0, whatever row the key had.
C5_Upsert ==
    /\ UniqueKeys
    /\ (Enabled /\ ret.op = "cache_search_results") =>
          LET rows == SearchRows(KeyOf(ret))
          IN  /\ Cardinality(rows) = 1
              /\ \A r \in rows : /\ json_loads(r.results) = ret.arg[1]
                                 /\ r.created_at = now
                                 /\ r.hit_count = 0
    /\ (Enabled /\ ret.op = "cache_function_details") =>
          LET rows == FunctionRows(ret.function_path)
          IN  /\ Cardinality(rows) = 1
              /\ \A r \in rows : /\ json_loads(r.details) = ret.arg[1]
                                 /\ r.created_at = now
                                 /\ r.hit_count = 0

\* The second write of one key at time 0: its reads are back to 0 and
\* the only row is the one just written.
C5_Witness ==
    /\ Enabled
    /\ ret.op = "cache_search_results"
    /\ writes = 2
    /\ ttl_seconds = 1
    /\ now = 0
    /\ Cardinality(search_cache) = 1
    /\ function_cache = {}
    /\ \A k \in FunctionPaths : last_write.function[k] = None
    /\ \A k \in SearchKeys \ {KeyOf(ret)} : last_write.search[k] = None

\* Lowercase-and-trim of the query, and the limit, are the same.
SameEntry(q1, l1, q2, l2) == strip(lower(q1)) = strip(lower(q2)) /\ l1 = l2

\* C6. Two lookups have the same search key iff their queries are equal
\* after lowercase-and-trim and their limits are equal; a get right after a
\* write returns the written list when its lookup is the same entry, and
\* otherwise leaves the written row as it is.
C6_SameKeyIffSameEntry ==
    \A i, j \in SearchInputs :
        (_hash_query(i[1], i[2]) = _hash_query(j[1], j[2]))
            <=> SameEntry(i[1], i[2], j[1], j[2])

C6_Step ==
    /\ C6_SameKeyIffSameEntry
    /\ ( /\ Enabled
         /\ ttl_seconds > 0
         /\ ret.op = "cache_search_results"
         /\ ret'.op = "get_search_results" ) =>
            IF SameEntry(ret.query, ret.limit, ret'.query, ret'.limit)
            THEN ret'.value = ret.arg
            ELSE /\ SearchRows(KeyOf(ret)) # {}
                 /\ SearchRows(KeyOf(ret)) \subseteq search_cache'

C6_KeyDerivation == [][C6_Step]_vars

\* A row written under "a" has been returned to a get of "A ".
C6_Witness ==
    /\ Enabled
    /\ ret.op = "get_search_results"
    /\ ret.query = <<"A", " ">>
    /\ ret.value # None
    /\ search_cache # {}
    /\ \A r \in search_cache : r.query = <<"a">>

\* C7. get_stats on a disabled store returns, without raising, the snapshot
\* with all six counters 0 and status "disabled".
C7_DisabledStats ==
    (phase = "constructed" /\ disabled /\ ret.op = "get_stats") =>
        /\ ret.exc = ""
        /\ ret.stats # None
        /\ ret.stats[1].search_entries = 0
        /\ ret.stats[1].function_entries = 0
        /\ ret.stats[1].total_entries = 0
        /\ ret.stats[1].search_hits = 0
        /\ ret.stats[1].function_hits = 0
        /\ ret.stats[1].total_hits = 0
        /\ ret.stats[1].status = Some("disabled")

\* C8. A disabled store stays disabled; its gets return None, its writes
\* and clear_all return without error and store nothing, and clear_expired
\* returns 0.
C8_Step ==
    (phase = "constructed" /\ disabled) =>
        /\ phase' = "constructed"
        /\ disabled'
        /\ UNCHANGED tables
        /\ ret'.op \in {"get_search_results", "get_function_details"} =>
              ret'.value = None /\ ret'.exc = ""
        /\ ret'.op \in {"cache_search_results", "cache_function_details", "clear_all"} =>
              ret'.exc = ""
        /\ ret'.op = "clear_expired" => ret'.count = 0 /\ ret'.exc = ""

C8_DisabledIsPermanent == [][C8_Step]_vars

\* clear_expired has returned on a disabled store.
C8_Witness ==
    /\ phase = "constructed"
    /\ disabled
    /\ ret.op = "clear_expired"

\* C9. Whatever keeps the cache directory from being created, __init__
\* returns an instance in the disabled state and does not raise.
C9_ConstructorNeverRaises ==
    (fs # "ok" /\ phase # "new") => (phase = "constructed" /\ disabled)

\* C10. clear_expired on an enabled store removes exactly the entries that
\* are not live, leaves the others as they are, and returns the number of
\* rows removed.
C10_Step ==
    (Enabled /\ ret'.op = "clear_expired") =>
        /\ search_cache' = {r \in search_cache : Live(r)}
        /\ function_cache' = {r \in function_cache : Live(r)}
        /\ ret'.count = Cardinality(search_cache \ search_cache')
                        + Cardinality(function_cache \ function_cache')

C10_SweepRemovesExactlyNotLive == [][C10_Step]_vars

\* C11. The created_at and the payload of an entry change only with a write
\* to its key: a row that appears, or whose created_at or payload differs,
\* comes from a write to that key and has created_at = the time of the
\* write; a get that returns a payload adds 1 to the hit_count of its row
\* and changes nothing else; and a get at a time >= created_at +
\* ttl_seconds returns None.
C11_Step ==
    /\ \A r2 \in search_cache' :
          \/ \E r \in search_cache : /\ r.query_hash = r2.query_hash
                                     /\ r.created_at = r2.created_at
                                     /\ r.results = r2.results
          \/ /\ ret'.op = "cache_search_results"
             /\ KeyOf(ret') = r2.query_hash
             /\ r2.created_at = now
    /\ \A r2 \in function_cache' :
          \/ \E r \in function_cache : /\ r.function_path = r2.function_path
                                       /\ r.created_at = r2.created_at
                                       /\ r.details = r2.details
          \/ /\ ret'.op = "cache_function_details"
             /\ ret'.function_path = r2.function_path
             /\ r2.created_at = now
    /\ (Enabled /\ ret'.op = "get_search_results") =>
          \A r \in SearchRows(KeyOf(ret')) :
              /\ ret'.value # None =>
                    search_cache' = (search_cache \ {r})
                                        \cup {[r EXCEPT !.hit_count = @ + 1]}
              /\ now >= r.created_at + ttl_seconds => ret'.value = None
    /\ (Enabled /\ ret'.op = "get_function_details") =>
          \A r \in FunctionRows(ret'.function_path) :
              /\ ret'.value # None =>
                    function_cache' = (function_cache \ {r})
                                          \cup {[r EXCEPT !.hit_count = @ + 1]}
              /\ now >= r.created_at + ttl_seconds => ret'.value = None

C11_OnlyWritesSetTimeAndPayload == [][C11_Step]_vars

\* A get has returned the payload of a row written one second before, for
\* the second time.
C11_Witness ==
    /\ Enabled
    /\ ret.op = "get_search_results"
    /\ ret.value # None
    /\ \E r \in SearchRows(KeyOf(ret)) : r.created_at = now - 1 /\ r.hit_count = 2

\* C12. A live entry stays, with its created_at and its payload, through
\* every step but clear_all and a write to its own key: a get of any key, a
\* write to another key, get_stats and clear_expired do not remove it,
\* whatever its hit_count and whatever else the tables hold.
C12_Step ==
    Enabled =>
        /\ \A r \in search_cache :
              ( /\ Live(r)
                /\ ret'.op # "clear_all"
                /\ ~(ret'.op = "cache_search_results" /\ KeyOf(ret') = r.query_hash) )
              => \E r2 \in search_cache' : /\ r2.query_hash = r.query_hash
                                           /\ r2.created_at = r.created_at
                                           /\ r2.results = r.results
        /\ \A r \in function_cache :
              ( /\ Live(r)
                /\ ret'.op # "clear_all"
                /\ ~( /\ ret'.op = "cache_function_details"
                      /\ ret'.function_path = r.function_path ) )
              => \E r2 \in function_cache' : /\ r2.function_path = r.function_path
                                             /\ r2.created_at = r.created_at
                                             /\ r2.details = r.details

C12_OnlyTTLEvicts == [][C12_Step]_vars

\* clear_expired has removed a row and a live row is still there.
C12_Witness ==
    /\ Enabled
    /\ ret.op = "clear_expired"
    /\ ret.count > 0
    /\ \E r \in search_cache \cup function_cache : Live(r)

\* The rows of the two tables as rows of one shape.
SearchEntries(table) ==
    { [key |-> r.query_hash, payload |-> r.results,
       created_at |-> r.created_at, hit_count |-> r.hit_count] : r \in table }

FunctionEntries(table) ==
    { [key |-> r.function_path, payload |-> r.details,
       created_at |-> r.created_at, hit_count |-> r.hit_count] : r \in table }

\* One step of a namespace that holds the entries T before and T2 after,
\* for the call c of kind "get" or "cache" on key k.
NamespaceStep(T, T2, kind, k, c) ==
    LET rows == {r \in T : r.key = k}
    IN  /\ kind = "get" =>
              /\ rows = {} => c.value = None /\ T2 = T
              /\ \A r \in rows :
                    IF Live(r)
                    THEN /\ c.value = Some(json_loads(r.payload))
                         /\ T2 = (T \ {r}) \cup {[r EXCEPT !.hit_count = @ + 1]}
                    ELSE /\ c.value = None
                         /\ T2 = T \ {r}
        /\ kind = "cache" =>
              T2 = {r \in T : r.key # k}
                      \cup {[key |-> k, payload |-> json_dumps(c.arg[1]),
                             created_at |-> now, hit_count |-> 0]}

\* C13. The function-detail namespace is the same state machine as the
\* search namespace (miss, live hit with hit_count + 1, expired delete,
\* upsert with hit_count 0 and created_at = now), its key is the
\* function_path string as given, and a get or a write of one namespace
\* leaves every row of the other as it was.
C13_Step ==
    Enabled =>
        /\ ret'.op = "get_function_details" =>
              /\ NamespaceStep(FunctionEntries(function_cache),
                               FunctionEntries(function_cache'),
                               "get", ret'.function_path, ret')
              /\ search_cache' = search_cache
        /\ ret'.op = "cache_function_details" =>
              /\ NamespaceStep(FunctionEntries(function_cache),
                               FunctionEntries(function_cache'),
                               "cache", ret'.function_path, ret')
              /\ search_cache' = search_cache
        /\ ret'.op = "get_search_results" =>
              /\ NamespaceStep(SearchEntries(search_cache),
                               SearchEntries(search_cache'),
                               "get", KeyOf(ret'), ret')
              /\ function_cache' = function_cache
        /\ ret'.op = "cache_search_results" =>
              /\ NamespaceStep(SearchEntries(search_cache),
                               SearchEntries(search_cache'),
                               "cache", KeyOf(ret'), ret')
              /\ function_cache' = function_cache

C13_FunctionNamespaceIsACopy == [][C13_Step]_vars

\* The paths "a" and "A " hold a row each, and a get of "a" has counted a
\* hit on its own row only.
C13_Witness ==
    /\ Enabled
    /\ ret.op = "get_function_details"
    /\ ret.function_path = <<"a">>
    /\ ret.value # None
    /\ \E r \in FunctionRows(<<"a">>) : r.hit_count = 1
    /\ \E r \in FunctionRows(<<"A", " ">>) : r.hit_count = 0

\* C14. clear_all on an enabled store leaves both tables empty; a row
\* comes into a table only by a write to its key, a get of a key that has
\* no row returns None, and get_stats on empty tables reports 0 entries and
\* 0 hits.
C14_Step ==
    Enabled =>
        /\ ret'.op = "clear_all" =>
              /\ search_cache' = {}
              /\ function_cache' = {}
              /\ ret'.exc = ""
        /\ \A r2 \in search_cache' :
              SearchRows(r2.query_hash) = {} =>
                  ret'.op = "cache_search_results" /\ KeyOf(ret') = r2.query_hash
        /\ \A r2 \in function_cache' :
              FunctionRows(r2.function_path) = {} =>
                  /\ ret'.op = "cache_function_details"
                  /\ ret'.function_path = r2.function_path
        /\ (ret'.op = "get_search_results" /\ SearchRows(KeyOf(ret')) = {}) =>
              ret'.value = None
        /\ (ret'.op = "get_function_details" /\ FunctionRows(ret'.function_path) = {}) =>
              ret'.value = None
        /\ (ret'.op = "get_stats" /\ search_cache = {} /\ function_cache = {}) =>
              /\ ret'.stats # None
              /\ ret'.stats[1].search_entries = 0
              /\ ret'.stats[1].function_entries = 0
              /\ ret'.stats[1].total_entries = 0
              /\ ret'.stats[1].search_hits = 0
              /\ ret'.stats[1].function_hits = 0
              /\ ret'.stats[1].total_hits = 0

C14_ClearAllEmpties == [][C14_Step]_vars

\* clear_all has returned after two writes, one to each table, and a read
\* that returned a payload.
C14_Witness ==
    /\ Enabled
    /\ ret.op = "clear_all"
    /\ search_cache = {}
    /\ function_cache = {}
    /\ \E k \in SearchKeys : last_write.search[k] # None /\ reads.search[k] > 0
    /\ \E k \in FunctionPaths : last_write.function[k] # None

RECURSIVE HitsFrom(_, _)
\* The hits of the rows of a table, counted level by level: the rows with
\* at least h hits, plus those with at least h + 1, and so on.
HitsFrom(table, h) ==
    LET rows == {r \in table : r.hit_count >= h}
    IN  IF rows = {} THEN 0 ELSE Cardinality(rows) + HitsFrom(rows, h + 1)

\* C15. get_stats on an enabled store changes no row and no setting, and
\* reports for each table its number of rows and the sum of their
\* hit_count (0 for no rows), and as totals the sums of the two.
C15_Step ==
    (Enabled /\ ret'.op = "get_stats") =>
        /\ UNCHANGED <<tables, config>>
        /\ ret'.exc = ""
        /\ ret'.stats # None
        /\ LET stats == ret'.stats[1]
           IN  /\ stats.search_entries = Cardinality(search_cache)
               /\ stats.function_entries = Cardinality(function_cache)
               /\ stats.search_hits = HitsFrom(search_cache, 1)
               /\ stats.function_hits = HitsFrom(function_cache, 1)
               /\ stats.total_entries = stats.search_entries + stats.function_entries
               /\ stats.total_hits = stats.search_hits + stats.function_hits

C15_StatsReadOnlyAndExact == [][C15_Step]_vars

\* get_stats has reported two rows, one in each table, and three hits.
C15_Witness ==
    /\ Enabled
    /\ ret.op = "get_stats"
    /\ ret.stats # None
    /\ ret.stats[1].search_entries = 1
    /\ ret.stats[1].function_entries = 1
    /\ ret.stats[1].search_hits = 2
    /\ ret.stats[1].total_hits = 3

\* The tool whose handler calls the cache method op.
ToolOf(op) ==
    CASE op \in {"get_search_results", "cache_search_results"} -> "search_docs"
      [] op \in {"get_function_details", "cache_function_details"} -> "get_function"
      [] op = "get_stats" -> "cache_stats"
      [] OTHER -> ""

\* C16. A storage fault in a cache read, write or stats call reaches the
\* caller as an exception; when the caller is the handler of search_docs,
\* get_function or cache_stats, the handler returns its error string for
\* that exception and the server goes on serving: the process ends only in
\* main(), before any request.
C16_StorageFaultsBecomeErrorStrings ==
    /\ (ret.exc = StorageFault /\ ToolOf(ret.op) # "") =>
          /\ main_pc = "serving"
          /\ handler = Idle
          /\ resp.tool = ToolOf(ret.op)
          /\ resp.kind = "error"
          /\ resp.body = Some(ret.exc)
    /\ main_pc = "crashed" => (handler = Idle /\ resp = NoResponse /\ sweeps <= 1)

\* The write of search_docs has raised after both remote calls, and the
\* handler has returned the error string.
C16_Witness ==
    /\ ret.op = "cache_search_results"
    /\ ret.exc = StorageFault
    /\ resp.tool = "search_docs"
    /\ resp.kind = "error"
    /\ resp.remote = <<"embeddings.create", "index.query">>
    /\ main_pc = "serving"

\* C17. With a disabled store no tool returns an error string because of
\* the cache: search_docs and get_function make their remote calls and
\* return the formatted result (or the error of a remote call), and
\* cache_stats returns a statistics report.
C17_DisabledCacheIsInvisible ==
    (phase = "constructed" /\ disabled /\ handler = Idle) =>
        /\ resp.tool = "cache_stats" => resp.kind = "stats"
        /\ resp.tool = "search_docs" =>
              /\ resp.remote # << >>
              /\ resp.kind = "error" =>
                    resp.body[1] \in {"openai.APIError", "pinecone.PineconeException"}
        /\ resp.tool = "get_function" =>
              /\ resp.remote # << >>
              /\ resp.kind = "error" =>
                    resp.body[1] \in {"openai.APIError", "pinecone.PineconeException"}

\* C18. main() constructs the store, then calls clear_expired once, and
\* serves only after that call has returned: no tool handler runs before,
\* and clear_expired is not called again once requests are served.
C18_SweepOnceBeforeServing ==
    /\ sweeps <= 1
    /\ sweeps = 1 => phase = "constructed"
    /\ main_pc = "serving" => sweeps = 1
    /\ (handler # Idle \/ resp # NoResponse) => (main_pc = "serving" /\ sweeps = 1)
    /\ ret.op = "clear_expired" => (handler = Idle /\ resp = NoResponse)
    /\ (ret.op = "clear_expired" /\ ret.exc # "") => main_pc = "crashed"

\* search_docs has returned a result it got from the index, after the
\* sweep of a database file that held rows of a former run.
C18_Witness ==
    /\ main_pc = "serving"
    /\ sweeps = 1
    /\ resp.tool = "search_docs"
    /\ resp.kind = "result"
    /\ resp.remote # << >>
    /\ last_write.function[<<"a">>] # None
    /\ writes = 1

\* The rows of the key of the concurrent calls.
RaceRows ==
    IF proc[Writer].op = "cache_search_results"
    THEN select_search(search_cache, RaceKey)
    ELSE select_function(function_cache, RacePath)

\* The rows the concurrent calls must leave alone are as at the start.
RaceOtherRowsUntouched ==
    IF proc[Writer].op = "cache_search_results"
    THEN /\ search_cache \ RaceRows = {r \in RaceSearchRows : r.query_hash # RaceKey}
         /\ function_cache = RaceFunctionRows
    ELSE /\ function_cache \ RaceRows
               = {r \in RaceFunctionRows : r.function_path # RacePath}
         /\ search_cache = RaceSearchRows

\* The read p has returned, and the row it fetched was expired.
ExpiredRead(p) ==
    /\ proc[p].pc = "done"
    /\ proc[p].row # None
    /\ proc[p].current_time - proc[p].row[1].created_at >= ttl_seconds

\* C19. When two concurrent reads of one key have both fetched the expired
\* row and both issued their DELETE, both return None, neither raises, no
\* other row is changed, and with no write in between the key has no row.
C19_RedundantDeleteIsIdempotent ==
    (\A p \in Readers : ExpiredRead(p)) =>
        /\ \A p \in Readers : proc[p].value = None /\ proc[p].exc = ""
        /\ RaceOtherRowsUntouched
        /\ proc[Writer].pc = "start" => RaceRows = {}

\* Both reads fetched the row of the start before either DELETE, and both
\* have committed their DELETE.
C19_Witness ==
    /\ \A p \in Readers : ExpiredRead(p) /\ proc[p].row[1].hit_count = 1
    /\ proc[Writer].pc = "start"
    /\ Len(commits) = 2
    /\ commits[1][2] = "DELETE"
    /\ commits[2][2] = "DELETE"

\* The row a cache call with the writer's payload at the writer's time
\* leaves for the key.
RaceWrittenRows ==
    IF proc[Writer].op = "cache_search_results"
    THEN { [query_hash |-> RaceKey, query |-> <<"a">>,
            results |-> json_dumps(proc[Writer].arg[1]),
            created_at |-> proc[Writer].current_time, hit_count |-> 0] }
    ELSE { [function_path |-> RacePath,
            details |-> json_dumps(proc[Writer].arg[1]),
            created_at |-> proc[Writer].current_time, hit_count |-> 0] }

\* C20. A read that fetched an expired row of key k and a concurrent write
\* of k: when both are done, the key holds the written row (its payload,
\* hit_count 0) if the INSERT OR REPLACE committed last and no row if the
\* DELETE committed last; neither raises, and at no point does a key have
\* two rows.
C20_LastCommitDecides ==
    /\ UniqueKeys
    /\ \A p \in Procs : proc[p].exc = ""
    /\ \A p \in Readers :
          ( /\ ExpiredRead(p)
            /\ proc[Writer].pc = "done"
            /\ \A q \in Readers \ {p} : proc[q].pc = "start" )
          => /\ commits[Len(commits)][2] = "INSERT" => RaceRows = RaceWrittenRows
             /\ commits[Len(commits)][2] = "DELETE" => RaceRows = {}
             /\ RaceOtherRowsUntouched

\* The read fetched the row of the start, the write replaced it, and the
\* read's DELETE committed last: the written row is gone.
C20_Witness ==
    /\ ExpiredRead("r1")
    /\ proc["r1"].row[1].hit_count = 1
    /\ proc["r2"].pc = "start"
    /\ proc[Writer].pc = "done"
    /\ commits = << <<Writer, "INSERT">>, <<"r1", "DELETE">> >>
    /\ RaceRows = {}

\* A get_search_results / get_function_details call of a tool handler
\* that starts a request on an enabled store and does not raise.
LookupStep(op) ==
    /\ Enabled
    /\ main_pc = "serving"
    /\ handler = Idle
    /\ ret'.op = op
    /\ ret'.exc = ""

\* C21. When the store holds a live entry for the request's key (the query
\* with the clamped limit, or the function path), the handler returns the
\* formatted cached payload without a remote call, and the entry is as it
\* was except for hit_count + 1, whatever the payload, an empty list or an
\* empty dict included.
C21_Step ==
    /\ LookupStep("get_search_results") =>
          \A r \in SearchRows(KeyOf(ret')) :
              Live(r) =>
                  /\ handler' = Idle
                  /\ resp'.tool = "search_docs"
                  /\ resp'.kind = "result"
                  /\ resp'.remote = << >>
                  /\ resp'.body = Some(format_search_result(json_loads(r.results),
                                                            ret'.query))
                  /\ search_cache' = (search_cache \ {r})
                                         \cup {[r EXCEPT !.hit_count = @ + 1]}
    /\ LookupStep("get_function_details") =>
          \A r \in FunctionRows(ret'.function_path) :
              Live(r) =>
                  /\ handler' = Idle
                  /\ resp'.tool = "get_function"
                  /\ resp'.kind = "result"
                  /\ resp'.remote = << >>
                  /\ resp'.body = Some(format_function_details(json_loads(r.details)))
                  /\ function_cache' = (function_cache \ {r})
                                           \cup {[r EXCEPT !.hit_count = @ + 1]}

C21_LiveEntryAnswersFromCache == [][C21_Step]_vars

\* The exceptions of the remote calls.
RemoteErrors == {"openai.APIError", "pinecone.PineconeException"}

\* The request that returns in this step has failed: a remote call raised,
\* or get_function found no match.
RequestFails ==
    /\ handler # Idle
    /\ handler' = Idle
    /\ \/ resp'.kind = "error" /\ resp'.body[1] \in RemoteErrors
       \/ resp'.kind = "not found"

\* A request of the key of handler h would not be answered from the rows
\* of the next state.
AgainAMiss(h) ==
    IF h.tool = "search_docs"
    THEN \A r \in search_cache' :
             (r.query_hash = _hash_query(h.query, h.limit) /\ Live(r))
                 => ~truthy(Some(json_loads(r.results)))
    ELSE \A r \in function_cache' :
             (r.function_path = h.function_path /\ Live(r))
                 => ~truthy(Some(json_loads(r.details)))

\* C22. A handler writes to the cache only in its last step, after its
\* remote lookup has returned data: a request in which a remote call raises
\* or get_function finds no match changes no row after its initial read,
\* caches nothing, and leaves its key a miss for the next request.
C22_Step ==
    /\ ret'.op \in {"cache_search_results", "cache_function_details"} =>
          /\ handler.pc = "cache"
          /\ handler.data # None
          /\ handler.remote # << >>
          /\ ret'.exc = "" => (ret'.arg = handler.data /\ resp'.kind = "result")
    /\ (handler # Idle
          /\ ret'.op \notin {"cache_search_results", "cache_function_details"}) =>
          /\ UNCHANGED tables
          /\ writes' = writes
    /\ RequestFails =>
          /\ UNCHANGED tables
          /\ writes' = writes
          /\ AgainAMiss(handler)

C22_FillOnlyAfterRemoteSuccess == [][C22_Step]_vars

\* get_function has answered "not found" after all three remote calls, on
\* a store that holds the row that the request's read counted as a hit.
C22_Witness ==
    /\ Enabled
    /\ main_pc = "serving"
    /\ handler = Idle
    /\ resp.tool = "get_function"
    /\ resp.kind = "not found"
    /\ resp.remote = <<"index.fetch", "embeddings.create", "index.query">>
    /\ writes = 1
    /\ \E r \in FunctionRows(<<"a">>) : Live(r) /\ r.hit_count > 0

====
